---------------------------- MODULE Spec2Model ----------------------------
(***************************************************************************)
(* A model of the grouping-and-selection pipeline of photo_cull:           *)
(*   photocull/clustering.py  hamming_distance, cluster_by_hash,           *)
(*                            group_into_bursts, score_images              *)
(*   photocull/main.py        process_folder (the CLI pipeline)            *)
(*   photocull/server.py      ProcessingQueue._process_with_stages         *)
(*                                                                         *)
(* Conventions.                                                            *)
(*  - A hash string is a sequence of symbols; the empty string is <<>>     *)
(*    (Python's falsy '' and None are both the empty sequence).            *)
(*  - Image indices are 0-based as in the code; the image with index i is  *)
(*    element i+1 of the sequences that hold per-image data.               *)
(*  - A timestamp is held in tenths of a second (fixed point), so that     *)
(*    (ts - last_ts) * 1000 is the exact integer TenthsToMs(ts - last_ts). *)
(*  - Metrics in [0,1] are held in hundredths, scores in units of 1e-4.    *)
(***************************************************************************)
EXTENDS Integers, Sequences, FiniteSets, TLC

(***************************************************************************)
(* Bounds of the model.                                                    *)
(***************************************************************************)
MaxLen == 3
MaxItems == 3
MaxPaths == 3
MaxImages == 3
HashLen == 12

Symbols == {0, 1}

(***************************************************************************)
(* Generic helpers.                                                        *)
(***************************************************************************)
Max(a, b) == IF a >= b THEN a ELSE b

Min(a, b) == IF a <= b THEN a ELSE b

Range(s) == {s[k] : k \in 1..Len(s)}

\* All sequences over S of length 0..n.
SeqsUpTo(S, n) == UNION {[1..k -> S] : k \in 0..n}

RECURSIVE SumSeq(_)
SumSeq(s) == IF s = <<>> THEN 0 ELSE Head(s) + SumSeq(Tail(s))

(***************************************************************************)
(* clustering.py: hamming_distance                                         *)
(***************************************************************************)
\* A plausible slip: zip() without the length check counts the differing
\* positions of the common prefix only.
HammingDistanceZipOnly(hash1, hash2) ==
    Cardinality({k \in 1..Min(Len(hash1), Len(hash2)) : hash1[k] # hash2[k]})

\* A plausible slip: the comparison inverted (counts the equal positions).
HammingDistanceCountsEqual(hash1, hash2) ==
    IF Len(hash1) # Len(hash2)
    THEN Max(Len(hash1), Len(hash2))
    ELSE Cardinality({k \in 1..Len(hash1) : hash1[k] = hash2[k]})

HammingDistance(hash1, hash2) ==
    IF Len(hash1) # Len(hash2)
    THEN Max(Len(hash1), Len(hash2))
    ELSE Cardinality({k \in 1..Len(hash1) : hash1[k] # hash2[k]})

(***************************************************************************)
(* clustering.py: cluster_by_hash                                          *)
(***************************************************************************)
\* not item.get('phash') or not item.get('dhash')
HasEmptyHash(item) == item.phash = <<>> \/ item.dhash = <<>>

\* A plausible slip: the corroboration rule written with "or".
IsSimilarEitherWithinT(item, other, dist_thresh) ==
    LET phash_dist == HammingDistance(item.phash, other.phash)
        dhash_dist == HammingDistance(item.dhash, other.dhash)
    IN  phash_dist <= dist_thresh \/ dhash_dist <= dist_thresh

\* Lines 61-75: the dual-threshold rule, as the if / elif of the code.
IsSimilar(item, other, dist_thresh) ==
    LET phash_dist == HammingDistance(item.phash, other.phash)
        dhash_dist == HammingDistance(item.dhash, other.dhash)
        very_similar_threshold == dist_thresh \div 2
    IN  IF phash_dist <= very_similar_threshold \/ dhash_dist <= very_similar_threshold
        THEN TRUE
        ELSE IF phash_dist <= dist_thresh /\ dhash_dist <= dist_thresh
             THEN TRUE
             ELSE FALSE

\* A plausible slip: a candidate compared with every member of the group so
\* far instead of the seed alone (single linkage).
RECURSIVE ScanSimilarAnyMember(_, _, _, _, _)
ScanSimilarAnyMember(valid_items, i, j, dist_thresh, st) ==
    IF j > Len(valid_items) THEN st
    ELSE LET item == valid_items[i]
             other == valid_items[j]
         IN  IF other.idx \in st.clustered
             THEN ScanSimilarAnyMember(valid_items, i, j + 1, dist_thresh, st)
             ELSE LET logged == [st EXCEPT !.compared = @ \cup {<<item.idx, other.idx>>}]
                  IN  IF \E k \in 1..Len(valid_items) :
                            /\ valid_items[k].idx \in Range(st.cluster)
                            /\ IsSimilar(valid_items[k], other, dist_thresh)
                      THEN ScanSimilarAnyMember(valid_items, i, j + 1, dist_thresh,
                               [logged EXCEPT !.cluster = Append(@, other.idx),
                                              !.clustered = @ \cup {other.idx}])
                      ELSE ScanSimilarAnyMember(valid_items, i, j + 1, dist_thresh, logged)

\* Lines 57-79: the inner scan of valid_items[i+1:] for the seed valid_items[i].
\* st = [cluster, clustered, compared]; compared logs every pair of idx the
\* scan hands to hamming_distance.
RECURSIVE ScanSimilar(_, _, _, _, _)
ScanSimilar(valid_items, i, j, dist_thresh, st) ==
    IF j > Len(valid_items) THEN st
    ELSE LET item == valid_items[i]
             other == valid_items[j]
         IN  IF other.idx \in st.clustered
             THEN ScanSimilar(valid_items, i, j + 1, dist_thresh, st)
             ELSE LET logged == [st EXCEPT !.compared = @ \cup {<<item.idx, other.idx>>}]
                  IN  IF IsSimilar(item, other, dist_thresh)
                      THEN ScanSimilar(valid_items, i, j + 1, dist_thresh,
                               [logged EXCEPT !.cluster = Append(@, other.idx),
                                              !.clustered = @ \cup {other.idx}])
                      ELSE ScanSimilar(valid_items, i, j + 1, dist_thresh, logged)

\* A plausible slip: the test "if item['idx'] in clustered: continue" left out,
\* so that an absorbed item opens a group of its own as well.
RECURSIVE ClusterValidSeedsAll(_, _, _, _)
ClusterValidSeedsAll(valid_items, i, dist_thresh, st) ==
    IF i > Len(valid_items) THEN st
    ELSE LET item == valid_items[i]
             scanned == ScanSimilar(valid_items, i, i + 1, dist_thresh,
                            [cluster |-> <<item.idx>>,
                             clustered |-> st.clustered \cup {item.idx},
                             compared |-> st.compared])
         IN  ClusterValidSeedsAll(valid_items, i + 1, dist_thresh,
                 [clusters |-> Append(st.clusters, scanned.cluster),
                  clustered |-> scanned.clustered,
                  compared |-> scanned.compared])

\* Lines 48-81: the outer loop over the seeds.
\* st = [clusters, clustered, compared].
RECURSIVE ClusterValid(_, _, _, _)
ClusterValid(valid_items, i, dist_thresh, st) ==
    IF i > Len(valid_items) THEN st
    ELSE LET item == valid_items[i]
         IN  IF item.idx \in st.clustered
             THEN ClusterValid(valid_items, i + 1, dist_thresh, st)
             ELSE LET scanned == ScanSimilar(valid_items, i, i + 1, dist_thresh,
                                     [cluster |-> <<item.idx>>,
                                      clustered |-> st.clustered \cup {item.idx},
                                      compared |-> st.compared])
                  IN  ClusterValid(valid_items, i + 1, dist_thresh,
                          [clusters |-> Append(st.clusters, scanned.cluster),
                           clustered |-> scanned.clustered,
                           compared |-> scanned.compared])

\* A plausible slip: the items with empty hashes filtered out and never added back.
ClusterByHashRunDropsEmpty(items, dist_thresh) ==
    LET IsValid(item) == ~HasEmptyHash(item)
        st == ClusterValid(SelectSeq(items, IsValid), 1, dist_thresh,
                  [clusters |-> <<>>, clustered |-> {}, compared |-> {}])
    IN  [clusters |-> st.clusters, compared |-> st.compared]

\* A plausible slip: no special case for empty hashes at all.
ClusterByHashRunComparesEmpty(items, dist_thresh) ==
    LET st == ClusterValid(items, 1, dist_thresh,
                  [clusters |-> <<>>, clustered |-> {}, compared |-> {}])
    IN  [clusters |-> st.clusters, compared |-> st.compared]

\* A plausible slip: the singletons of the empty-hash items put in front of the
\* groups of the valid items.
ClusterByHashRunEmptyFirst(items, dist_thresh) ==
    LET IsEmpty(item) == HasEmptyHash(item)
        IsValid(item) == ~HasEmptyHash(item)
        empty_items == SelectSeq(items, IsEmpty)
        st == ClusterValid(SelectSeq(items, IsValid), 1, dist_thresh,
                  [clusters |-> <<>>, clustered |-> {}, compared |-> {}])
    IN  [clusters |-> [k \in 1..Len(empty_items) |-> <<empty_items[k].idx>>] \o st.clusters,
         compared |-> st.compared]

\* Lines 28-87: the whole function; the result and the log of comparisons.
ClusterByHashRun(items, dist_thresh) ==
    LET IsEmpty(item) == HasEmptyHash(item)
        IsValid(item) == ~HasEmptyHash(item)
        empty_hash_count == Cardinality({k \in 1..Len(items) : HasEmptyHash(items[k])})
        valid_items == IF empty_hash_count > 0 THEN SelectSeq(items, IsValid) ELSE items
        empty_items == IF empty_hash_count > 0 THEN SelectSeq(items, IsEmpty) ELSE <<>>
        st == ClusterValid(valid_items, 1, dist_thresh,
                  [clusters |-> <<>>, clustered |-> {}, compared |-> {}])
    IN  IF items = <<>>
        THEN [clusters |-> <<>>, compared |-> {}]
        ELSE IF empty_hash_count > 0 /\ empty_hash_count = Len(items)
        THEN [clusters |-> [k \in 1..Len(items) |-> <<items[k].idx>>], compared |-> {}]
        ELSE [clusters |-> st.clusters \o [k \in 1..Len(empty_items) |-> <<empty_items[k].idx>>],
              compared |-> st.compared]

ClusterByHash(items, dist_thresh) == ClusterByHashRun(items, dist_thresh).clusters

(***************************************************************************)
(* clustering.py: group_into_bursts                                        *)
(***************************************************************************)
\* A plausible slip: the "* 1000" left out, the gap left in seconds.
TenthsToSeconds(d) == d \div 10

\* (ts - last_ts) * 1000 for timestamps held in tenths of a second.
TenthsToMs(d) == (d * 1000) \div 10

\* A plausible slip: a sort that is not stable, x going in front of the elements
\* whose key equals its own.
RECURSIVE InsertByTsBeforeEqual(_, _)
InsertByTsBeforeEqual(sorted, x) ==
    IF sorted = <<>> THEN <<x>>
    ELSE IF Head(sorted)[2] < x[2]
         THEN <<Head(sorted)>> \o InsertByTsBeforeEqual(Tail(sorted), x)
         ELSE <<x>> \o sorted

\* list.sort(key=...) is stable: x goes after every element whose key is <= its own.
RECURSIVE InsertByTs(_, _)
InsertByTs(sorted, x) ==
    IF sorted = <<>> THEN <<x>>
    ELSE IF Head(sorted)[2] <= x[2]
         THEN <<Head(sorted)>> \o InsertByTs(Tail(sorted), x)
         ELSE <<x>> \o sorted

RECURSIVE SortByTs(_)
SortByTs(pairs) ==
    IF pairs = <<>> THEN <<>>
    ELSE InsertByTs(SortByTs(SubSeq(pairs, 1, Len(pairs) - 1)), pairs[Len(pairs)])

\* A plausible slip: the exclusive comparison.
SameBurstExclusive(ts, last_ts, gap_ms) == TenthsToMs(ts - last_ts) < gap_ms

\* Line 269: gap <= gap_ms.
SameBurst(ts, last_ts, gap_ms) == TenthsToMs(ts - last_ts) <= gap_ms

\* Lines 266-277: the walk over timestamps[1:].
\* st = [bursts, current_burst, last_ts].
RECURSIVE BurstWalk(_, _, _, _)
BurstWalk(timestamps, k, gap_ms, st) ==
    IF k > Len(timestamps) THEN st
    ELSE LET idx == timestamps[k][1]
             ts == timestamps[k][2]
         IN  IF SameBurst(ts, st.last_ts, gap_ms)
             THEN BurstWalk(timestamps, k + 1, gap_ms,
                      [st EXCEPT !.current_burst = Append(@, idx), !.last_ts = ts])
             ELSE BurstWalk(timestamps, k + 1, gap_ms,
                      [bursts |-> Append(st.bursts, st.current_burst),
                       current_burst |-> <<idx>>,
                       last_ts |-> ts])

\* A plausible slip: the final burst never appended.
GroupIntoBurstsDropsLast(image_ts, gap_ms) ==
    IF image_ts = <<>> THEN <<>>
    ELSE LET timestamps == SortByTs([k \in 1..Len(image_ts) |-> <<k - 1, image_ts[k]>>])
             st == BurstWalk(timestamps, 2, gap_ms,
                       [bursts |-> <<>>,
                        current_burst |-> <<timestamps[1][1]>>,
                        last_ts |-> timestamps[1][2]])
         IN  st.bursts

\* A plausible slip: no early return and no test before the final append, the
\* walk starting from an empty current burst.
GroupIntoBurstsAppendsAlways(image_ts, gap_ms) ==
    LET timestamps == SortByTs([k \in 1..Len(image_ts) |-> <<k - 1, image_ts[k]>>])
        st == IF timestamps = <<>>
              THEN [bursts |-> <<>>, current_burst |-> <<>>]
              ELSE BurstWalk(timestamps, 2, gap_ms,
                       [bursts |-> <<>>,
                        current_burst |-> <<timestamps[1][1]>>,
                        last_ts |-> timestamps[1][2]])
    IN  Append(st.bursts, st.current_burst)

\* Lines 255-283; image_ts[k] is read_timestamp(image_paths[k-1]).
GroupIntoBursts(image_ts, gap_ms) ==
    IF image_ts = <<>> THEN <<>>
    ELSE LET timestamps == SortByTs([k \in 1..Len(image_ts) |-> <<k - 1, image_ts[k]>>])
             st == BurstWalk(timestamps, 2, gap_ms,
                       [bursts |-> <<>>,
                        current_burst |-> <<timestamps[1][1]>>,
                        last_ts |-> timestamps[1][2]])
         IN  IF st.current_burst # <<>>
             THEN Append(st.bursts, st.current_burst)
             ELSE st.bursts

(***************************************************************************)
(* clustering.py: score_images, in fixed point                             *)
(*   sharpness: an integer; blur_score, exposure_ok, eyes_open and the     *)
(*   face blur scores: hundredths; sharpness_z: hundredths, truncated      *)
(*   toward zero; score: units of 1e-4.                                    *)
(***************************************************************************)
Isqrt(n) == CHOOSE r \in 0..n : r * r <= n /\ (r + 1) * (r + 1) > n

\* A plausible slip: the else branch left out, so that with a zero deviation
\* every record keeps the sharpness_z it came with.
SharpnessZKeepsOld(metrics_list, k) ==
    LET N == Len(metrics_list)
        S == SumSeq([j \in 1..N |-> metrics_list[j].sharpness])
        Q == SumSeq([j \in 1..N |-> metrics_list[j].sharpness * metrics_list[j].sharpness])
        D == N * Q - S * S
        num == N * metrics_list[k].sharpness - S
        mag == Isqrt((num * num * 10000) \div D)
    IN  IF D > 0
        THEN (IF num >= 0 THEN mag ELSE 0 - mag)
        ELSE metrics_list[k].sharpness_z

\* Lines 295-304.  With N records, sum S and sum of squares Q, the population
\* variance is (N*Q - S*S) / N^2, so (x - mean) / std = (N*x - S) / sqrt(N*Q - S*S).
SharpnessZ(metrics_list, k) ==
    LET N == Len(metrics_list)
        S == SumSeq([j \in 1..N |-> metrics_list[j].sharpness])
        Q == SumSeq([j \in 1..N |-> metrics_list[j].sharpness * metrics_list[j].sharpness])
        D == N * Q - S * S
        num == N * metrics_list[k].sharpness - S
        mag == Isqrt((num * num * 10000) \div D)
    IN  IF D > 0
        THEN (IF num >= 0 THEN mag ELSE 0 - mag)
        ELSE 0

\* A plausible slip: the portrait term added whatever face_count is, with no
\* weight moved to the technical term.
CompositeAlwaysPortrait(m, z) ==
    LET technical_score == 30 * z + 20 * m.blur_score + 15 * m.exposure_ok
        portrait_score ==
            25 * m.eyes_open
            + (IF m.face_blur_scores # <<>>
               THEN (10 * SumSeq(m.face_blur_scores)) \div Len(m.face_blur_scores)
               ELSE 0)
        aesthetic_score ==
            (IF m.exposure_ok > 80 THEN 500 ELSE 0)
            + (IF ~m.has_motion_blur THEN 500 ELSE 0)
            + (IF 1 <= m.face_count /\ m.face_count <= 3 THEN 500
               ELSE IF m.face_count > 5 THEN 0 - 500 ELSE 0)
    IN  technical_score + portrait_score + aesthetic_score

\* A plausible slip: the preference for images without motion blur left out.
CompositeIgnoresMotionBlur(m, z) ==
    LET base == 30 * z + 20 * m.blur_score + 15 * m.exposure_ok
        technical_score == IF m.face_count > 0 THEN base ELSE base + 3500
        portrait_score ==
            IF m.face_count > 0
            THEN 25 * m.eyes_open
                 + (IF m.face_blur_scores # <<>>
                    THEN (10 * SumSeq(m.face_blur_scores)) \div Len(m.face_blur_scores)
                    ELSE 0)
            ELSE 0
        aesthetic_score ==
            (IF m.exposure_ok > 80 THEN 500 ELSE 0)
            + (IF 1 <= m.face_count /\ m.face_count <= 3 THEN 500
               ELSE IF m.face_count > 5 THEN 0 - 500 ELSE 0)
    IN  technical_score + portrait_score + aesthetic_score

\* Lines 307-347 for one record whose sharpness_z is z: the composite value
\* before it is clamped.
Composite(m, z) ==
    LET base == 30 * z + 20 * m.blur_score + 15 * m.exposure_ok
        technical_score == IF m.face_count > 0 THEN base ELSE base + 3500
        portrait_score ==
            IF m.face_count > 0
            THEN 25 * m.eyes_open
                 + (IF m.face_blur_scores # <<>>
                    THEN (10 * SumSeq(m.face_blur_scores)) \div Len(m.face_blur_scores)
                    ELSE 0)
            ELSE 0
        aesthetic_score ==
            (IF m.exposure_ok > 80 THEN 500 ELSE 0)
            + (IF ~m.has_motion_blur THEN 500 ELSE 0)
            + (IF 1 <= m.face_count /\ m.face_count <= 3 THEN 500
               ELSE IF m.face_count > 5 THEN 0 - 500 ELSE 0)
    IN  technical_score + portrait_score + aesthetic_score

\* A plausible slip: the clamp left out.
FinalScoreUnclamped(m, z) == Composite(m, z)

\* Lines 347-350: the composite value, clamped to [-2.0, 2.0].
FinalScore(m, z) == Max(0 - 20000, Min(20000, Composite(m, z)))

\* A plausible slip: the score accumulated onto the record's previous score.
ScoreImagesAccumulates(metrics_list) ==
    [k \in 1..Len(metrics_list) |->
        [metrics_list[k] EXCEPT
            !.sharpness_z = SharpnessZ(metrics_list, k),
            !.score = Max(0 - 20000, Min(20000,
                          @ + FinalScore(metrics_list[k], SharpnessZ(metrics_list, k))))]]

\* A plausible slip: the z-score written to sharpness instead of sharpness_z.
ScoreImagesOverwritesSharpness(metrics_list) ==
    [k \in 1..Len(metrics_list) |->
        [metrics_list[k] EXCEPT
            !.sharpness = SharpnessZ(metrics_list, k),
            !.score = FinalScore(metrics_list[k], SharpnessZ(metrics_list, k))]]

\* Lines 286-350: the records, annotated in place.
ScoreImages(metrics_list) ==
    [k \in 1..Len(metrics_list) |->
        [metrics_list[k] EXCEPT
            !.sharpness_z = SharpnessZ(metrics_list, k),
            !.score = FinalScore(metrics_list[k], SharpnessZ(metrics_list, k))]]

(***************************************************************************)
(* main.py 190-191, server.py 157-158: cluster_metrics and its sort         *)
(***************************************************************************)
\* sort(key=score, reverse=True) keeps the order of equal keys: x goes after
\* every element whose score is >= its own.
RECURSIVE InsertByScoreDesc(_, _)
InsertByScoreDesc(sorted, x) ==
    IF sorted = <<>> THEN <<x>>
    ELSE IF Head(sorted)[2] >= x[2]
         THEN <<Head(sorted)>> \o InsertByScoreDesc(Tail(sorted), x)
         ELSE <<x>> \o sorted

RECURSIVE SortByScoreDesc(_)
SortByScoreDesc(pairs) ==
    IF pairs = <<>> THEN <<>>
    ELSE InsertByScoreDesc(SortByScoreDesc(SubSeq(pairs, 1, Len(pairs) - 1)),
                           pairs[Len(pairs)])

\* A plausible slip: the sort left out, the first member taken as the winner.
ClusterMetricsUnsorted(cluster_indices, metrics_list) ==
    [k \in 1..Len(cluster_indices) |->
        <<cluster_indices[k], metrics_list[cluster_indices[k] + 1].score>>]

\* cluster_metrics after the sort: pairs <<idx, score>>.
ClusterMetrics(cluster_indices, metrics_list) ==
    SortByScoreDesc([k \in 1..Len(cluster_indices) |->
        <<cluster_indices[k], metrics_list[cluster_indices[k] + 1].score>>])

\* ReportEntry listing the winner alone as member.
ReportEntryWinnerOnly(cluster_id, burst_id, cluster_metrics) ==
    [cluster_id |-> cluster_id,
     burst_id |-> burst_id,
     members |-> <<cluster_metrics[1][1]>>,
     winner |-> cluster_metrics[1][1],
     scores |-> <<cluster_metrics[1][2]>>]

\* main.py 214-220, server.py 185-191: one entry of all_cluster_reports.
\* A path stands for its image: members and winner hold image indices.
ReportEntry(cluster_id, burst_id, cluster_metrics) ==
    [cluster_id |-> cluster_id,
     burst_id |-> burst_id,
     members |-> [k \in 1..Len(cluster_metrics) |-> cluster_metrics[k][1]],
     winner |-> cluster_metrics[1][1],
     scores |-> [k \in 1..Len(cluster_metrics) |-> cluster_metrics[k][2]]]

(***************************************************************************)
(* The state.                                                              *)
(***************************************************************************)
VARIABLES
    \* a caller of hamming_distance
    hash1, hash2, h_pc, h_ret,
    \* a caller of cluster_by_hash
    items, dist_thresh, c_pc, c_ret,
    \* a caller of group_into_bursts
    image_ts, gap_ms, b_pc, b_ret,
    \* a caller of score_images: the list it passes, which the call annotates
    \* in place, and the list as it was when the call began
    records, s_pc, s_before,
    \* a pipeline run: its entry point, its inputs (the records the feature
    \* extractor made, one per path; the timestamp of each path; the
    \* configuration), its position, its locals and its report
    entry, metrics, paths_ts, hash_dist, burst_gap_ms,
    pc, bursts, cursor, global_hash_clusters, processed_indices,
    all_cluster_reports, cluster_id_counter,
    \* the run number and what the first run put out
    run, first_run,
    \* a ProcessingQueue: the job dicts made so far, in the order the request
    \* handler made them (a job is named by its place in this list; 0 is
    \* None), the queue, current_job and job_history holding such names, the
    \* worker thread's position and its local job, the request thread's
    \* position in add_job and the len(self.job_history) it has read
    jobs, queue, current_job, job_history, w_pc, job, a_pc, a_len

h_vars == <<hash1, hash2, h_pc, h_ret>>

c_vars == <<items, dist_thresh, c_pc, c_ret>>

b_vars == <<image_ts, gap_ms, b_pc, b_ret>>

s_vars == <<records, s_pc, s_before>>

in_vars == <<entry, metrics, paths_ts, hash_dist, burst_gap_ms>>

loc_vars == <<bursts, cursor, global_hash_clusters, processed_indices,
              all_cluster_reports, cluster_id_counter>>

p_vars == <<in_vars, pc, loc_vars, run, first_run>>

q_vars == <<jobs, queue, current_job, job_history, w_pc, job, a_pc, a_len>>

vars == <<h_vars, c_vars, b_vars, s_vars, p_vars, q_vars>>

HIdle == hash1 = <<>> /\ hash2 = <<>> /\ h_pc = "idle" /\ h_ret = <<>>

CIdle == items = <<>> /\ dist_thresh = 0 /\ c_pc = "idle" /\ c_ret = <<>>

BIdle == image_ts = <<>> /\ gap_ms = 0 /\ b_pc = "idle" /\ b_ret = <<>>

SIdle == records = <<>> /\ s_pc = "idle" /\ s_before = <<>>

PIdle ==
    /\ entry = "none" /\ metrics = <<>> /\ paths_ts = <<>>
    /\ hash_dist = 0 /\ burst_gap_ms = 0
    /\ pc = "idle" /\ bursts = <<>> /\ cursor = 0
    /\ global_hash_clusters = <<>> /\ processed_indices = {}
    /\ all_cluster_reports = <<>> /\ cluster_id_counter = 0
    /\ run = 0 /\ first_run = <<>>

QIdle ==
    /\ jobs = <<>> /\ queue = <<>> /\ current_job = 0 /\ job_history = <<>>
    /\ w_pc = "idle" /\ job = 0 /\ a_pc = "idle" /\ a_len = 0

(***************************************************************************)
(* The inputs.                                                             *)
(***************************************************************************)
Strings == SeqsUpTo(Symbols, MaxLen)

\* A hash of HashLen symbols whose first k are 1: two of them differ in |k - l| places.
Ones(k) == [p \in 1..HashLen |-> IF p <= k THEN 1 ELSE 0]

\* A malformed (short) hash.
Short == <<1, 1, 1>>

HashPairs ==
    { [phash |-> Ones(0),  dhash |-> Ones(0)],
      [phash |-> Ones(4),  dhash |-> Ones(10)],
      [phash |-> Ones(5),  dhash |-> Ones(8)],
      [phash |-> Ones(5),  dhash |-> Ones(10)],
      [phash |-> Ones(10), dhash |-> Ones(10)],
      [phash |-> Short,    dhash |-> Ones(10)],
      [phash |-> <<>>,     dhash |-> Ones(0)],
      [phash |-> Ones(0),  dhash |-> <<>>] }

Thresholds == {0, 8, 9}

\* The orders in which a candidate list may name its n images: ascending,
\* descending, and ascending rotated by one.
IdxOrders(n) ==
    { [k \in 1..n |-> k - 1],
      [k \in 1..n |-> n - k],
      [k \in 1..n |-> k % n] }

ItemLists ==
    UNION {
        { [k \in 1..n |-> [idx |-> o[k], phash |-> h[k].phash, dhash |-> h[k].dhash]] :
              o \in IdxOrders(n), h \in [1..n -> HashPairs] } :
        n \in 0..MaxItems }

\* Timestamps in tenths of a second: 0 s, 0.2 s, 0.7 s, 5 s.
Timestamps == {0, 2, 7, 50}

\* gap_ms is an unchecked number: a negative one is passed on as it is.
GapsMs == {0 - 1, 0, 700, 1000}

(***************************************************************************)
(* A call of hamming_distance(hash1, hash2), with the calls on the swapped *)
(* arguments and on (hash1, hash1) beside it.                              *)
(***************************************************************************)
HammingInit ==
    /\ hash1 \in Strings
    /\ hash2 \in Strings
    /\ h_pc = "call"
    /\ h_ret = <<>>
    /\ CIdle /\ BIdle /\ SIdle /\ PIdle /\ QIdle

HammingCall ==
    /\ h_pc = "call"
    /\ h_ret' = [ab |-> HammingDistance(hash1, hash2),
                 ba |-> HammingDistance(hash2, hash1),
                 aa |-> HammingDistance(hash1, hash1)]
    /\ h_pc' = "done"
    /\ UNCHANGED <<hash1, hash2, c_vars, b_vars, s_vars, p_vars, q_vars>>

HammingNext == HammingCall

SpecHamming == HammingInit /\ [][HammingNext]_vars

(***************************************************************************)
(* A call of cluster_by_hash(items, dist_thresh).                          *)
(***************************************************************************)
ClusterInit ==
    /\ items \in ItemLists
    /\ dist_thresh \in Thresholds
    /\ c_pc = "call"
    /\ c_ret = <<>>
    /\ HIdle /\ BIdle /\ SIdle /\ PIdle /\ QIdle

ClusterCall ==
    /\ c_pc = "call"
    /\ c_ret' = ClusterByHashRun(items, dist_thresh)
    /\ c_pc' = "done"
    /\ UNCHANGED <<items, dist_thresh, h_vars, b_vars, s_vars, p_vars, q_vars>>

ClusterNext == ClusterCall

SpecCluster == ClusterInit /\ [][ClusterNext]_vars

(***************************************************************************)
(* A call of group_into_bursts(image_paths, gap_ms).                       *)
(***************************************************************************)
BurstsInit ==
    /\ image_ts \in SeqsUpTo(Timestamps, MaxPaths)
    /\ gap_ms \in GapsMs
    /\ b_pc = "call"
    /\ b_ret = <<>>
    /\ HIdle /\ CIdle /\ SIdle /\ PIdle /\ QIdle

BurstsCall ==
    /\ b_pc = "call"
    /\ b_ret' = GroupIntoBursts(image_ts, gap_ms)
    /\ b_pc' = "done"
    /\ UNCHANGED <<image_ts, gap_ms, h_vars, c_vars, s_vars, p_vars, q_vars>>

BurstsNext == BurstsCall

SpecBursts == BurstsInit /\ [][BurstsNext]_vars

(***************************************************************************)
(* Properties of hamming_distance (under SpecHamming).                     *)
(***************************************************************************)
\* C7: for strings a, b of equal length, hamming_distance(a, b) equals
\* hamming_distance(b, a), and hamming_distance(a, a) is 0.
C7_HammingSymmetricZeroOnSelf ==
    h_pc = "done" =>
        /\ Len(hash1) = Len(hash2) => h_ret.ab = h_ret.ba
        /\ h_ret.aa = 0

\* C7 witness: two different strings of the same length >= 2 were compared.
C7_Witness ==
    /\ h_pc = "done"
    /\ Len(hash1) = Len(hash2)
    /\ Len(hash1) >= 2
    /\ h_ret.ab >= 1
    /\ h_ret.ab < Len(hash1)

\* C8: for strings of unequal lengths m # n, hamming_distance returns
\* max(m, n); on every pair of strings it returns a number (no error).
C8_HammingUnequalLengthIsMax ==
    h_pc = "done" =>
        /\ h_ret.ab \in Nat
        /\ Len(hash1) # Len(hash2) => h_ret.ab = Max(Len(hash1), Len(hash2))

\* C8 witness: two non-empty strings of different lengths that agree on their
\* common prefix were compared.
C8_Witness ==
    /\ h_pc = "done"
    /\ Len(hash1) >= 1
    /\ Len(hash2) > Len(hash1)
    /\ \A k \in 1..Len(hash1) : hash1[k] = hash2[k]

(***************************************************************************)
(* Properties of cluster_by_hash (under SpecCluster).                      *)
(***************************************************************************)
InputIdx == {items[k].idx : k \in 1..Len(items)}

ItemOf(idx) == items[CHOOSE k \in 1..Len(items) : items[k].idx = idx]

\* The places <<g, p>> of the returned groups that hold idx.
PlacesOf(clusters, idx) ==
    {gp \in {<<g, p>> : g \in 1..Len(clusters), p \in 1..MaxItems + 1} :
        gp[2] <= Len(clusters[gp[1]]) /\ clusters[gp[1]][gp[2]] = idx}

GroupOf(clusters, idx) == CHOOSE g \in 1..Len(clusters) : idx \in Range(clusters[g])

\* C1: the groups cluster_by_hash returns partition the candidate ids: every
\* input idx is in exactly one group, at one place; no group is empty; no idx
\* that was not in the input appears.
C1_ClustersPartitionInput ==
    c_pc = "done" =>
        /\ \A idx \in InputIdx : Cardinality(PlacesOf(c_ret.clusters, idx)) = 1
        /\ \A g \in 1..Len(c_ret.clusters) :
              /\ c_ret.clusters[g] # <<>>
              /\ Range(c_ret.clusters[g]) \subseteq InputIdx

\* C1 witness: a list mixing a record without hashes with valid records came
\* back as a group of two or more and at least one more group.
C1_Witness ==
    /\ c_pc = "done"
    /\ Len(items) >= 3
    /\ \E k \in 1..Len(items) : HasEmptyHash(items[k])
    /\ \E g \in 1..Len(c_ret.clusters) : Len(c_ret.clusters[g]) >= 2

\* The similarity rule as the specification words it.
RuleHolds(a, b, T) ==
    LET d1 == HammingDistance(a.phash, b.phash)
        d2 == HammingDistance(a.dhash, b.dhash)
    IN  d1 <= T \div 2 \/ d2 <= T \div 2 \/ (d1 <= T /\ d2 <= T)

\* C2: whenever cluster_by_hash compares a seed with a later unclustered valid
\* record, the record is absorbed into the seed's group if and only if
\* d1 <= T // 2 or d2 <= T // 2 or (d1 <= T and d2 <= T); and every member of a
\* group other than its seed was absorbed by such a comparison.
C2_AbsorbedIffDualThreshold ==
    c_pc = "done" =>
        /\ \A pair \in c_ret.compared :
              LET g == GroupOf(c_ret.clusters, pair[1])
              IN  /\ c_ret.clusters[g][1] = pair[1]
                  /\ (pair[2] \in Range(c_ret.clusters[g]))
                       <=> RuleHolds(ItemOf(pair[1]), ItemOf(pair[2]), dist_thresh)
        /\ \A g \in 1..Len(c_ret.clusters) :
              \A p \in 2..Len(c_ret.clusters[g]) :
                  <<c_ret.clusters[g][1], c_ret.clusters[g][p]>> \in c_ret.compared

\* C2 witness: with T = 8 one record was absorbed although neither distance is
\* within T // 2 (both are within T), and another compared record was rejected
\* although one of its distances is within T.
C2_Witness ==
    /\ c_pc = "done"
    /\ dist_thresh = 8
    /\ \E pair \in c_ret.compared :
          LET a == ItemOf(pair[1])
              b == ItemOf(pair[2])
          IN  /\ HammingDistance(a.phash, b.phash) > 4
              /\ HammingDistance(a.dhash, b.dhash) > 4
              /\ pair[2] \in Range(c_ret.clusters[GroupOf(c_ret.clusters, pair[1])])
    /\ \E pair \in c_ret.compared :
          LET a == ItemOf(pair[1])
              b == ItemOf(pair[2])
          IN  /\ HammingDistance(a.phash, b.phash) <= 8
              /\ HammingDistance(a.dhash, b.dhash) > 8
              /\ pair[2] \notin Range(c_ret.clusters[GroupOf(c_ret.clusters, pair[1])])

EmptyIdx == {items[k].idx : k \in {l \in 1..Len(items) : HasEmptyHash(items[l])}}

\* C6: an item whose phash or dhash is missing or empty is never compared and
\* is returned as its own singleton group; if every item lacks a hash the
\* result is one singleton per item in input order; one empty-hash record
\* with two records of matching hashes gives exactly two groups, the pair and
\* the singleton.
C6_EmptyHashSingletons ==
    c_pc = "done" =>
        /\ \A pair \in c_ret.compared : pair[1] \notin EmptyIdx /\ pair[2] \notin EmptyIdx
        /\ \A idx \in EmptyIdx : \E g \in 1..Len(c_ret.clusters) : c_ret.clusters[g] = <<idx>>
        /\ EmptyIdx = InputIdx =>
              c_ret.clusters = [k \in 1..Len(items) |-> <<items[k].idx>>]
        /\ \A e, v, w \in 1..Len(items) :
              ( /\ Len(items) = 3
                /\ v < w
                /\ HasEmptyHash(items[e])
                /\ ~HasEmptyHash(items[v])
                /\ ~HasEmptyHash(items[w])
                /\ items[v].phash = items[w].phash
                /\ items[v].dhash = items[w].dhash )
              => c_ret.clusters = << <<items[v].idx, items[w].idx>>, <<items[e].idx>> >>

\* C6 witness: the scenario happened with the empty-hash record first in the
\* list and a threshold of 0.
C6_Witness ==
    /\ c_pc = "done"
    /\ Len(items) = 3
    /\ dist_thresh = 0
    /\ HasEmptyHash(items[1])
    /\ ~HasEmptyHash(items[2])
    /\ items[2].phash = items[3].phash
    /\ items[2].dhash = items[3].dhash
    /\ Len(c_ret.clusters) = 2

\* The place of idx in the input list.
PosOf(idx) == CHOOSE k \in 1..Len(items) : items[k].idx = idx

\* C12: in the result of cluster_by_hash the members of a group are in input
\* order (the seed first), the groups of valid records are in the input order
\* of their seeds, and the singletons of the records with a missing hash come
\* after every group of valid records, in input order.
C12_GroupsInDiscoveryOrder ==
    c_pc = "done" =>
        LET clusters == c_ret.clusters
        IN  /\ \A g \in 1..Len(clusters) : \A p \in 2..Len(clusters[g]) :
                  PosOf(clusters[g][p - 1]) < PosOf(clusters[g][p])
            /\ \A g, h \in 1..Len(clusters) :
                  LET g_empty == clusters[g][1] \in EmptyIdx
                      h_empty == clusters[h][1] \in EmptyIdx
                  IN  /\ (g < h /\ g_empty = h_empty)
                            => PosOf(clusters[g][1]) < PosOf(clusters[h][1])
                      /\ (g_empty /\ ~h_empty) => h < g

\* C12 witness: a list whose first record has no hash came back as one group
\* of two valid records, in input order although their ids descend, followed
\* by the singleton.
C12_Witness ==
    /\ c_pc = "done"
    /\ Len(items) = 3
    /\ HasEmptyHash(items[1])
    /\ Len(c_ret.clusters) = 2
    /\ c_ret.clusters[1] = <<items[2].idx, items[3].idx>>
    /\ items[2].idx > items[3].idx
    /\ c_ret.clusters[2] = <<items[1].idx>>

\* The pairs of distinct valid records of the input whose phash distance is d1
\* and whose dhash distance is d2.
ValidPairsAt(d1, d2) ==
    {ab \in (InputIdx \ EmptyIdx) \X (InputIdx \ EmptyIdx) :
        /\ ab[1] # ab[2]
        /\ HammingDistance(ItemOf(ab[1]).phash, ItemOf(ab[2]).phash) = d1
        /\ HammingDistance(ItemOf(ab[1]).dhash, ItemOf(ab[2]).dhash) = d2}

SameGroup(a, b) == GroupOf(c_ret.clusters, a) = GroupOf(c_ret.clusters, b)

\* The claim as first stated, C19: with T = 8, two valid records at distances
\* d1 = 0 and d2 = 0 are in the same group, and two valid records at distances
\* d1 = 10 and d2 = 10 are in different groups, whatever else the list holds.
C19_Original_FarPairAlwaysApart ==
    (c_pc = "done" /\ dist_thresh = 8) =>
        /\ \A ab \in ValidPairsAt(0, 0) : SameGroup(ab[1], ab[2])
        /\ \A ab \in ValidPairsAt(10, 10) : ~SameGroup(ab[1], ab[2])

\* C19, amended: with T = 8, two valid records at distances d1 = 0 and d2 = 0
\* are in the same group whatever else the list holds; two valid records at
\* distances d1 = 10 and d2 = 10 are in the same group only when a third
\* record is the seed of that group and is similar to each of them; a list of
\* just the two gives two groups.
C19_FarPairApartUnlessSharedSeed ==
    (c_pc = "done" /\ dist_thresh = 8) =>
        /\ \A ab \in ValidPairsAt(0, 0) : SameGroup(ab[1], ab[2])
        /\ \A ab \in ValidPairsAt(10, 10) :
              /\ SameGroup(ab[1], ab[2]) =>
                    LET seed == c_ret.clusters[GroupOf(c_ret.clusters, ab[1])][1]
                    IN  /\ seed # ab[1] /\ seed # ab[2]
                        /\ RuleHolds(ItemOf(seed), ItemOf(ab[1]), dist_thresh)
                        /\ RuleHolds(ItemOf(seed), ItemOf(ab[2]), dist_thresh)
              /\ Len(items) = 2 => Len(c_ret.clusters) = 2

\* C19 witness: with T = 8 a seed absorbed two records that are at distances
\* d1 = 10 and d2 = 10 from each other.
C19_Witness ==
    /\ c_pc = "done" /\ dist_thresh = 8
    /\ Len(items) = 3
    /\ Len(c_ret.clusters) = 1
    /\ <<items[2].idx, items[3].idx>> \in ValidPairsAt(10, 10)

(***************************************************************************)
(* Properties of group_into_bursts (under SpecBursts).                     *)
(***************************************************************************)
BurstOf(burst_list, idx) == CHOOSE g \in 1..Len(burst_list) : idx \in Range(burst_list[g])

BurstPlacesOf(burst_list, idx) ==
    {gp \in {<<g, p>> : g \in 1..Len(burst_list), p \in 1..MaxPaths + 1} :
        gp[2] <= Len(burst_list[gp[1]]) /\ burst_list[gp[1]][gp[2]] = idx}

\* C4: for n >= 1 images the bursts partition the indices 0..n-1: every index
\* is in exactly one burst, at one place, and nothing else is in a burst.
C4_BurstsPartitionIndices ==
    (b_pc = "done" /\ Len(image_ts) >= 1) =>
        /\ \A idx \in 0..(Len(image_ts) - 1) : Cardinality(BurstPlacesOf(b_ret, idx)) = 1
        /\ \A g \in 1..Len(b_ret) : Range(b_ret[g]) \subseteq 0..(Len(image_ts) - 1)

\* C4 witness: three or more images came back as two or more bursts, one of
\* them with several images.
C4_Witness ==
    /\ b_pc = "done"
    /\ Len(image_ts) >= 3
    /\ Len(b_ret) >= 2
    /\ \E g \in 1..Len(b_ret) : Len(b_ret[g]) >= 2

\* The indices in timestamp order (ties in input order).
TsOrder == LET sorted == SortByTs([k \in 1..Len(image_ts) |-> <<k - 1, image_ts[k]>>])
           IN  [k \in 1..Len(sorted) |-> sorted[k][1]]

\* C5: two images adjacent in timestamp order are in the same burst if and
\* only if (ts[i] - ts[i-1]) * 1000 <= gap_ms (inclusive); with gap_ms = 0 two
\* images at one timestamp form one burst; the gap across every burst
\* boundary is greater than gap_ms.
C5_AdjacentSameBurstIffWithinGap ==
    (b_pc = "done" /\ Len(image_ts) >= 1) =>
        /\ \A k \in 2..Len(image_ts) :
              (BurstOf(b_ret, TsOrder[k - 1]) = BurstOf(b_ret, TsOrder[k]))
                <=> ((image_ts[TsOrder[k] + 1] - image_ts[TsOrder[k - 1] + 1]) * 1000 <= gap_ms * 10)
        /\ (gap_ms = 0 /\ Len(image_ts) = 2 /\ image_ts[1] = image_ts[2]) => Len(b_ret) = 1
        /\ \A g \in 2..Len(b_ret) :
              LET last == b_ret[g - 1][Len(b_ret[g - 1])]
                  first == b_ret[g][1]
              IN  (image_ts[first + 1] - image_ts[last + 1]) * 1000 > gap_ms * 10

\* C5 witness: a gap of exactly gap_ms = 700 ms kept two images together
\* while a larger gap split the list.
C5_Witness ==
    /\ b_pc = "done"
    /\ gap_ms = 700
    /\ Len(b_ret) = 2
    /\ \E k \in 2..Len(image_ts) :
          /\ image_ts[TsOrder[k] + 1] - image_ts[TsOrder[k - 1] + 1] = 7
          /\ BurstOf(b_ret, TsOrder[k - 1]) = BurstOf(b_ret, TsOrder[k])

\* One of the two hash strings of a differs in length from that of b.
UnequalLength(a, b) == Len(a.phash) # Len(b.phash) \/ Len(a.dhash) # Len(b.dhash)

Absorbed(pair) == pair[2] \in Range(c_ret.clusters[GroupOf(c_ret.clusters, pair[1])])

\* The claim as first stated, C21: a valid record whose phash or dhash differs
\* in length from the seed's is never absorbed into the seed's group, for any
\* threshold T >= 0.
C21_Original_UnequalLengthNeverAbsorbed ==
    (c_pc = "done" /\ dist_thresh >= 0) =>
        \A pair \in c_ret.compared :
            UnequalLength(ItemOf(pair[1]), ItemOf(pair[2])) => ~Absorbed(pair)

\* C21, amended: when one hash of a compared pair is of unequal length and T
\* is below the longer of the two lengths, the record is absorbed into the
\* seed's group if and only if the distance of the other hash is <= T // 2;
\* the hash of unequal length itself never makes the pair similar.
C21_UnequalLengthAbsorbedOnlyByOtherHash ==
    (c_pc = "done" /\ dist_thresh >= 0) =>
        \A pair \in c_ret.compared :
            LET a == ItemOf(pair[1])
                b == ItemOf(pair[2])
            IN  /\ ( /\ Len(a.phash) # Len(b.phash)
                      /\ dist_thresh < Max(Len(a.phash), Len(b.phash)) )
                    => (Absorbed(pair)
                          <=> HammingDistance(a.dhash, b.dhash) <= dist_thresh \div 2)
                /\ ( /\ Len(a.dhash) # Len(b.dhash)
                      /\ dist_thresh < Max(Len(a.dhash), Len(b.dhash)) )
                    => (Absorbed(pair)
                          <=> HammingDistance(a.phash, b.phash) <= dist_thresh \div 2)

\* C21 witness: with T = 0 a seed absorbed a record whose phash is of another
\* length than its own and whose dhash is the same, and with some T a record
\* with a phash of another length was compared and not absorbed.
C21_Witness ==
    /\ c_pc = "done" /\ dist_thresh = 0
    /\ \E pair \in c_ret.compared :
          /\ Len(ItemOf(pair[1]).phash) # Len(ItemOf(pair[2]).phash)
          /\ ItemOf(pair[1]).dhash = ItemOf(pair[2]).dhash
          /\ Absorbed(pair)
    /\ \E pair \in c_ret.compared :
          /\ Len(ItemOf(pair[1]).phash) # Len(ItemOf(pair[2]).phash)
          /\ ~Absorbed(pair)

\* The ids in the groups opened before group g.
EarlierGroups(g) == UNION {Range(c_ret.clusters[h]) : h \in 1..(g - 1)}

\* C22: every group of valid records is its seed followed by exactly the valid
\* records that come later in the input, are similar to the seed and are in
\* no group opened earlier; so every other member is similar to the seed of
\* its group, no record is similar to the seed of a group opened before its
\* own, and a record that was absorbed is the seed of no group.
C22_GroupIsSeedPlusLaterSimilarUnclaimed ==
    c_pc = "done" =>
        \A g \in 1..Len(c_ret.clusters) :
            LET seed == c_ret.clusters[g][1]
            IN  seed \notin EmptyIdx =>
                  /\ Range(c_ret.clusters[g]) \ {seed} =
                        {r \in InputIdx \ EmptyIdx :
                            /\ PosOf(r) > PosOf(seed)
                            /\ RuleHolds(ItemOf(seed), ItemOf(r), dist_thresh)
                            /\ r \notin EarlierGroups(g)}
                  /\ \A p \in 2..Len(c_ret.clusters[g]) :
                        /\ RuleHolds(ItemOf(seed), ItemOf(c_ret.clusters[g][p]), dist_thresh)
                        /\ \A h \in 1..Len(c_ret.clusters) :
                              c_ret.clusters[h][1] # c_ret.clusters[g][p]
                  /\ \A h \in 1..(g - 1) : \A r \in Range(c_ret.clusters[g]) :
                        ~RuleHolds(ItemOf(c_ret.clusters[h][1]), ItemOf(r), dist_thresh)

\* C22 witness: the second of three valid records was absorbed by the first,
\* and the third, similar to the second but not to the first, opened a group
\* of its own.
C22_Witness ==
    /\ c_pc = "done"
    /\ Len(items) = 3 /\ EmptyIdx = {}
    /\ c_ret.clusters = << <<items[1].idx, items[2].idx>>, <<items[3].idx>> >>
    /\ RuleHolds(items[2], items[3], dist_thresh)

\* C23: cluster_by_hash depends on the order of its input and does not form
\* connected components: whenever three valid records A, B, C are given in
\* this order with A similar to B, B similar to C and A not similar to C, the
\* result is [A, B], [C]; and the same three records given as B, A, C come
\* back as the one group [B, A, C].
C23_OrderChangesPartition ==
    ( /\ c_pc = "done"
      /\ Len(items) = 3 /\ EmptyIdx = {}
      /\ RuleHolds(items[1], items[2], dist_thresh)
      /\ RuleHolds(items[2], items[3], dist_thresh)
      /\ ~RuleHolds(items[1], items[3], dist_thresh) )
    => /\ c_ret.clusters = << <<items[1].idx, items[2].idx>>, <<items[3].idx>> >>
       /\ ClusterByHash(<<items[2], items[1], items[3]>>, dist_thresh)
             = << <<items[2].idx, items[1].idx, items[3].idx>> >>

\* C23 witness: with T = 8 the records A (no bit set in either hash), B (4
\* bits in phash, 10 in dhash) and C (10 bits in both) were given as A, B, C.
C23_Witness ==
    /\ c_pc = "done" /\ dist_thresh = 8
    /\ Len(items) = 3
    /\ items[1].phash = Ones(0) /\ items[1].dhash = Ones(0)
    /\ items[2].phash = Ones(4) /\ items[2].dhash = Ones(10)
    /\ items[3].phash = Ones(10) /\ items[3].dhash = Ones(10)
    /\ Len(c_ret.clusters) = 2

\* C18, as stated, for group_into_bursts: a call with a negative gap threshold
\* is reported as an error, that is, it does not return a list of bursts.
C18_NegativeGapIsRejected ==
    gap_ms < 0 => b_pc # "done"

\* The bursts one after the other, as one list.
RECURSIVE Concat(_)
Concat(burst_list) ==
    IF burst_list = <<>> THEN <<>> ELSE Head(burst_list) \o Concat(Tail(burst_list))

\* C13: the bursts group_into_bursts returns, concatenated in order, are the
\* stable ascending-timestamp sort of the input indices: every index once,
\* timestamps non-decreasing along the concatenation, and images of equal
\* timestamp in their input order.
C13_ConcatIsStableTimestampSort ==
    b_pc = "done" =>
        LET flat == Concat(b_ret)
        IN  /\ Len(flat) = Len(image_ts)
            /\ Range(flat) = 0..(Len(image_ts) - 1)
            /\ \A k \in 2..Len(flat) :
                  \/ image_ts[flat[k - 1] + 1] < image_ts[flat[k] + 1]
                  \/ /\ image_ts[flat[k - 1] + 1] = image_ts[flat[k] + 1]
                     /\ flat[k - 1] < flat[k]
            /\ \A g \in 1..Len(b_ret) : \A p \in 2..Len(b_ret[g]) :
                  image_ts[b_ret[g][p - 1] + 1] <= image_ts[b_ret[g][p] + 1]

\* C13 witness: three images given out of timestamp order, two of them at one
\* timestamp, came back in one burst with the two in input order behind the
\* earlier third.
C13_Witness ==
    /\ b_pc = "done"
    /\ Len(image_ts) = 3
    /\ image_ts[1] = image_ts[2]
    /\ image_ts[3] < image_ts[1]
    /\ b_ret = << <<2, 0, 1>> >>

\* C14: group_into_bursts returns the empty list for no images and at least
\* one burst otherwise; no burst it returns is empty; the last burst holds
\* the image that is last in timestamp order, also when that image is alone
\* in it.
C14_NoEmptyBurstFinalIncluded ==
    b_pc = "done" =>
        /\ image_ts = <<>> => b_ret = <<>>
        /\ image_ts # <<>> => Len(b_ret) >= 1
        /\ \A g \in 1..Len(b_ret) : b_ret[g] # <<>>
        /\ image_ts # <<>> =>
              LET last == b_ret[Len(b_ret)]
              IN  \A k \in 1..Len(image_ts) : image_ts[k] <= image_ts[last[Len(last)] + 1]

\* C14 witness: the last of three images, 4.3 s after the one before it, came
\* back as a final burst of its own.
C14_Witness ==
    /\ b_pc = "done"
    /\ image_ts = <<0, 7, 50>>
    /\ gap_ms = 700
    /\ b_ret = << <<0, 1>>, <<2>> >>

(***************************************************************************)
(* The pipelines: main.py process_folder and server.py                     *)
(* ProcessingQueue._process_with_stages, from the point where the feature  *)
(* extractor has made one record per path.                                 *)
(***************************************************************************)
NoFaces == [sharpness |-> 1, blur_score |-> 40, exposure_ok |-> 90, eyes_open |-> 100,
            face_count |-> 0, face_blur_scores |-> <<>>, has_motion_blur |-> FALSE]

OneFace == [sharpness |-> 3, blur_score |-> 80, exposure_ok |-> 70, eyes_open |-> 50,
            face_count |-> 1, face_blur_scores |-> <<60>>, has_motion_blur |-> TRUE]

Profiles == {NoFaces, OneFace}

PipelineHashPairs ==
    { [phash |-> Ones(0),  dhash |-> Ones(0)],
      [phash |-> Ones(10), dhash |-> Ones(10)] }

PipelineTimestamps == {0, 2}

PipelineGapsMs == {0, 700}

PipelineHashDists == {8}

\* features.py 12-35: an ImageMetrics as extract_all_features leaves it
\* (sharpness_z and score at their defaults).
ImageMetrics(profile, hashes) ==
    [sharpness |-> profile.sharpness, blur_score |-> profile.blur_score,
     exposure_ok |-> profile.exposure_ok, eyes_open |-> profile.eyes_open,
     face_count |-> profile.face_count, face_blur_scores |-> profile.face_blur_scores,
     has_motion_blur |-> profile.has_motion_blur,
     phash |-> hashes.phash, dhash |-> hashes.dhash,
     sharpness_z |-> 0, score |-> 0]

MetricsLists ==
    UNION { { [k \in 1..n |-> ImageMetrics(pr[k], h[k])] :
                pr \in [1..n -> Profiles], h \in [1..n -> PipelineHashPairs] } :
            n \in 0..MaxImages }

PipelineInit ==
    /\ entry \in {"process_folder", "_process_with_stages"}
    /\ metrics \in MetricsLists
    /\ paths_ts \in [1..Len(metrics) -> PipelineTimestamps]
    /\ hash_dist \in PipelineHashDists
    /\ burst_gap_ms \in PipelineGapsMs
    /\ pc = "scan"
    /\ bursts = <<>> /\ cursor = 0
    /\ global_hash_clusters = <<>> /\ processed_indices = {}
    /\ all_cluster_reports = <<>> /\ cluster_id_counter = 0
    /\ run = 1 /\ first_run = <<>>
    /\ HIdle /\ CIdle /\ BIdle /\ SIdle /\ QIdle

\* main.py 179-182, server.py 133-136: the items handed to cluster_by_hash.
HashItems(indices, metrics_list) ==
    [k \in 1..Len(indices) |->
        [idx |-> indices[k],
         phash |-> metrics_list[indices[k] + 1].phash,
         dhash |-> metrics_list[indices[k] + 1].dhash]]

\* A plausible slip: the call of score_images left out of process_folder.
PfScanSkipsScore ==
    /\ entry = "process_folder" /\ pc = "scan"
    /\ pc' = IF metrics = <<>> THEN "returned" ELSE "bursts"
    /\ UNCHANGED <<in_vars, loc_vars, run, first_run, h_vars, c_vars, b_vars, s_vars, q_vars>>

\* main.py 83-87: no images, return without a report.
PfScan ==
    /\ entry = "process_folder" /\ pc = "scan"
    /\ pc' = IF metrics = <<>> THEN "returned" ELSE "score"
    /\ UNCHANGED <<in_vars, loc_vars, run, first_run, h_vars, c_vars, b_vars, s_vars, q_vars>>

\* main.py 164-166.
PfScore ==
    /\ entry = "process_folder" /\ pc = "score"
    /\ metrics' = ScoreImages(metrics)
    /\ pc' = "bursts"
    /\ UNCHANGED <<entry, paths_ts, hash_dist, burst_gap_ms, loc_vars, run, first_run,
                   h_vars, c_vars, b_vars, s_vars, q_vars>>

\* main.py 168-175.
PfBursts ==
    /\ entry = "process_folder" /\ pc = "bursts"
    /\ bursts' = GroupIntoBursts(paths_ts, burst_gap_ms)
    /\ all_cluster_reports' = <<>>
    /\ cluster_id_counter' = 0
    /\ cursor' = 1
    /\ pc' = "clusters"
    /\ UNCHANGED <<in_vars, global_hash_clusters, processed_indices, run, first_run,
                   h_vars, c_vars, b_vars, s_vars, q_vars>>

\* PfBurst with the entries of the burst put in front of the report instead of
\* appended to it.
PfBurstPrepends ==
    /\ entry = "process_folder" /\ pc = "clusters"
    /\ cursor <= Len(bursts)
    /\ LET burst_id == cursor - 1
           burst_indices == bursts[cursor]
           hash_clusters == ClusterByHash(HashItems(burst_indices, metrics), hash_dist)
       IN  /\ all_cluster_reports' =
                  [k \in 1..Len(hash_clusters) |->
                      ReportEntry(cluster_id_counter + k - 1, burst_id,
                                  ClusterMetrics(hash_clusters[k], metrics))]
                  \o all_cluster_reports
           /\ cluster_id_counter' = cluster_id_counter + Len(hash_clusters)
    /\ cursor' = cursor + 1
    /\ UNCHANGED <<in_vars, pc, bursts, global_hash_clusters, processed_indices,
                   run, first_run, h_vars, c_vars, b_vars, s_vars, q_vars>>

\* main.py 177-222: one turn of the loop over the bursts, burst_id = cursor - 1,
\* with its inner loop over the clusters of the burst.
PfBurst ==
    /\ entry = "process_folder" /\ pc = "clusters"
    /\ cursor <= Len(bursts)
    /\ LET burst_id == cursor - 1
           burst_indices == bursts[cursor]
           hash_clusters == ClusterByHash(HashItems(burst_indices, metrics), hash_dist)
       IN  /\ all_cluster_reports' = all_cluster_reports \o
                  [k \in 1..Len(hash_clusters) |->
                      ReportEntry(cluster_id_counter + k - 1, burst_id,
                                  ClusterMetrics(hash_clusters[k], metrics))]
           /\ cluster_id_counter' = cluster_id_counter + Len(hash_clusters)
    /\ cursor' = cursor + 1
    /\ UNCHANGED <<in_vars, pc, bursts, global_hash_clusters, processed_indices,
                   run, first_run, h_vars, c_vars, b_vars, s_vars, q_vars>>

\* main.py 232-254: the loop is over, the report is written.
PfReport ==
    /\ entry = "process_folder" /\ pc = "clusters"
    /\ cursor > Len(bursts)
    /\ pc' = "done"
    /\ UNCHANGED <<in_vars, loc_vars, run, first_run, h_vars, c_vars, b_vars, s_vars, q_vars>>

\* server.py 71-75: no images, ValueError.
SrvScan ==
    /\ entry = "_process_with_stages" /\ pc = "scan"
    /\ pc' = IF metrics = <<>> THEN "raised" ELSE "score"
    /\ UNCHANGED <<in_vars, loc_vars, run, first_run, h_vars, c_vars, b_vars, s_vars, q_vars>>

\* server.py 115-117.
SrvScore ==
    /\ entry = "_process_with_stages" /\ pc = "score"
    /\ metrics' = ScoreImages(metrics)
    /\ pc' = "bursts"
    /\ UNCHANGED <<entry, paths_ts, hash_dist, burst_gap_ms, loc_vars, run, first_run,
                   h_vars, c_vars, b_vars, s_vars, q_vars>>

\* server.py 119-125.
SrvBursts ==
    /\ entry = "_process_with_stages" /\ pc = "bursts"
    /\ bursts' = GroupIntoBursts(paths_ts, burst_gap_ms)
    /\ pc' = "clusters"
    /\ UNCHANGED <<in_vars, cursor, global_hash_clusters, processed_indices,
                   all_cluster_reports, cluster_id_counter, run, first_run,
                   h_vars, c_vars, b_vars, s_vars, q_vars>>

\* server.py 127-148: one clustering of all images.
SrvCluster ==
    /\ entry = "_process_with_stages" /\ pc = "clusters"
    /\ all_cluster_reports' = <<>>
    /\ cluster_id_counter' = 0
    /\ global_hash_clusters' =
           ClusterByHash(HashItems([k \in 1..Len(metrics) |-> k - 1], metrics), hash_dist)
    /\ processed_indices' = {}
    /\ cursor' = 1
    /\ pc' = "select"
    /\ UNCHANGED <<in_vars, bursts, run, first_run, h_vars, c_vars, b_vars, s_vars, q_vars>>

\* A plausible slip: the default of idx_to_burst.get(winner_idx, 0) always taken.
IdxToBurstDefault(burst_list, img_idx) == 0

\* server.py 144-148, 165: idx_to_burst.get(img_idx, 0).
IdxToBurst(burst_list, img_idx) ==
    LET holding == {g \in 1..Len(burst_list) : img_idx \in Range(burst_list[g])}
    IN  IF holding = {} THEN 0
        ELSE (CHOOSE g \in holding : \A o \in holding : o <= g) - 1

\* server.py 150-196: one turn of the loop over global_hash_clusters.
SrvSelect ==
    /\ entry = "_process_with_stages" /\ pc = "select"
    /\ cursor <= Len(global_hash_clusters)
    /\ LET global_cluster == global_hash_clusters[cursor]
           cluster_metrics == ClusterMetrics(global_cluster, metrics)
           winner_idx == cluster_metrics[1][1]
           burst_id == IdxToBurst(bursts, winner_idx)
       IN  IF Range(global_cluster) \subseteq processed_indices
           THEN UNCHANGED <<all_cluster_reports, processed_indices, cluster_id_counter>>
           ELSE /\ all_cluster_reports' =
                      Append(all_cluster_reports,
                             ReportEntry(cluster_id_counter, burst_id, cluster_metrics))
                /\ processed_indices' = processed_indices \cup Range(global_cluster)
                /\ cluster_id_counter' = cluster_id_counter + 1
    /\ cursor' = cursor + 1
    /\ UNCHANGED <<in_vars, pc, bursts, global_hash_clusters, run, first_run,
                   h_vars, c_vars, b_vars, s_vars, q_vars>>

\* server.py 198-212.
SrvReport ==
    /\ entry = "_process_with_stages" /\ pc = "select"
    /\ cursor > Len(global_hash_clusters)
    /\ pc' = "done"
    /\ UNCHANGED <<in_vars, loc_vars, run, first_run, h_vars, c_vars, b_vars, s_vars, q_vars>>

\* What a run puts out: the report's bursts and hash_clusters, and the
\* derived fields of the records.
Output ==
    [bursts |-> bursts,
     hash_clusters |-> all_cluster_reports,
     derived |-> [k \in 1..Len(metrics) |-> <<metrics[k].sharpness_z, metrics[k].score>>]]

\* The same entry point is called once more on the same records and
\* configuration (main.py 275-283, server.py 42).
RunAgain ==
    /\ pc = "done" /\ run = 1
    /\ first_run' = Output
    /\ run' = 2
    /\ pc' = "scan"
    /\ UNCHANGED <<in_vars, loc_vars, h_vars, c_vars, b_vars, s_vars, q_vars>>

Next ==
    \/ PfScan \/ PfScore \/ PfBursts \/ PfBurst \/ PfReport
    \/ SrvScan \/ SrvScore \/ SrvBursts \/ SrvCluster \/ SrvSelect \/ SrvReport
    \/ RunAgain

Spec == PipelineInit /\ [][Next]_vars

(***************************************************************************)
(* Properties of the pipelines (under Spec).                               *)
(***************************************************************************)
Entries == {all_cluster_reports[k] : k \in 1..Len(all_cluster_reports)}

\* The members of e hold the scores the records carry, the winner is the first
\* member and no member scores higher than the winner.
WinnerFirstAndBest(e) ==
    /\ Len(e.scores) = Len(e.members)
    /\ \A k \in 1..Len(e.members) :
          /\ e.scores[k] = metrics[e.members[k] + 1].score
          /\ e.scores[1] >= e.scores[k]
    /\ e.winner = e.members[1]

\* The claim as first stated, C3: in every emitted entry the members are in
\* descending order of score, equal scores in ascending order of image id,
\* and the winner is the first member.
C3_Original_TiesByAscendingId ==
    \A e \in Entries :
        /\ WinnerFirstAndBest(e)
        /\ \A k \in 1..(Len(e.members) - 1) :
              \/ e.scores[k] > e.scores[k + 1]
              \/ e.scores[k] = e.scores[k + 1] /\ e.members[k] < e.members[k + 1]

\* a comes before b in the order cluster_by_hash was given: the burst's order
\* (ascending timestamp, equal timestamps by ascending id) in process_folder,
\* ascending id in _process_with_stages.
GivenBefore(a, b) ==
    IF entry = "process_folder"
    THEN \/ paths_ts[a + 1] < paths_ts[b + 1]
         \/ paths_ts[a + 1] = paths_ts[b + 1] /\ a < b
    ELSE a < b

\* C3, amended: in every emitted entry the members are in descending order of
\* score, members of equal score keep the order in which cluster_by_hash
\* returned them (ascending timestamp, then id, in process_folder; ascending
\* id in _process_with_stages), and the winner is the first member, whose
\* score is >= every other member's.
C3_SortedByScoreTiesKeepClusterOrder ==
    \A e \in Entries :
        /\ WinnerFirstAndBest(e)
        /\ \A k \in 1..(Len(e.members) - 1) :
              \/ e.scores[k] > e.scores[k + 1]
              \/ e.scores[k] = e.scores[k + 1] /\ GivenBefore(e.members[k], e.members[k + 1])

\* C3 witness: an entry of three members was emitted in which the sort moved
\* a higher-scoring later image to the front and two members tie.
C3_Witness ==
    \E e \in Entries :
        /\ Len(e.members) = 3
        /\ e.scores[1] > e.scores[3]
        /\ \E k \in 1..2 : e.scores[k] = e.scores[k + 1]
        /\ \E k \in 2..3 : GivenBefore(e.members[k], e.members[1])

\* C9: a second run of the pipeline on the same records, timestamps and
\* configuration puts out what the first run put out: the same bursts, the
\* same entries in the same order (cluster_id, burst_id, members, winner,
\* scores) and the same derived fields.
C9_SecondRunSameOutput ==
    (pc = "done" /\ run = 2) => Output = first_run

\* C9 witness: a second run finished whose report has several entries, one of
\* them with several members, and a record with a non-zero score.
C9_Witness ==
    /\ pc = "done" /\ run = 2
    /\ Len(all_cluster_reports) >= 2
    /\ \E e \in Entries : Len(e.members) >= 2
    /\ \E k \in 1..Len(metrics) : metrics[k].score # 0 /\ metrics[k].sharpness_z # 0

\* The claim as first stated, C10: every member of every emitted entry is in
\* the burst at position burst_id, in both pipelines.
C10_Original_MembersInTaggedBurst ==
    pc \in {"clusters", "select", "done"} =>
        \A e \in Entries :
            /\ e.burst_id + 1 \in 1..Len(bursts)
            /\ Range(e.members) \subseteq Range(bursts[e.burst_id + 1])

\* C10, amended: in process_folder every member of an emitted entry is in the
\* burst at position burst_id; in _process_with_stages the winner of the
\* entry is in the burst at position burst_id (the other members may lie in
\* other bursts).
C10_BurstTagPerEntryPoint ==
    pc \in {"clusters", "select", "done"} =>
        \A e \in Entries :
            /\ e.burst_id + 1 \in 1..Len(bursts)
            /\ IF entry = "process_folder"
               THEN Range(e.members) \subseteq Range(bursts[e.burst_id + 1])
               ELSE e.winner \in Range(bursts[e.burst_id + 1])

\* C10 witness: _process_with_stages emitted an entry tagged with a burst other
\* than the first, whose winner is in that burst and one of whose members is not.
C10_Witness ==
    /\ entry = "_process_with_stages" /\ pc = "done"
    /\ \E e \in Entries :
          /\ e.burst_id >= 1
          /\ e.winner \in Range(bursts[e.burst_id + 1])
          /\ \E m \in Range(e.members) : m \notin Range(bursts[e.burst_id + 1])

\* The places in the report of the entries tagged with burst b, in report order.
RECURSIVE PlacesOfBurst(_, _)
PlacesOfBurst(b, k) ==
    IF k > Len(all_cluster_reports) THEN <<>>
    ELSE IF all_cluster_reports[k].burst_id = b
         THEN <<k>> \o PlacesOfBurst(b, k + 1)
         ELSE PlacesOfBurst(b, k + 1)

\* C11: in one run the entries come out with cluster_id 0, 1, 2, ... in the
\* order they are emitted; in process_folder the burst_id never decreases from
\* one entry to the next, and the entries of one burst are, in order, the
\* groups cluster_by_hash returned for that burst.
C11_EntriesInEmissionOrder ==
    pc \in {"clusters", "select", "done"} =>
        /\ \A k \in 1..Len(all_cluster_reports) : all_cluster_reports[k].cluster_id = k - 1
        /\ cluster_id_counter = Len(all_cluster_reports)
        /\ entry = "process_folder" =>
              /\ \A k \in 2..Len(all_cluster_reports) :
                    all_cluster_reports[k - 1].burst_id <= all_cluster_reports[k].burst_id
              /\ \A b \in 1..(cursor - 1) :
                    LET groups == ClusterByHash(HashItems(bursts[b], metrics), hash_dist)
                        places == PlacesOfBurst(b - 1, 1)
                    IN  /\ Len(places) = Len(groups)
                        /\ \A g \in 1..Len(groups) :
                              Range(all_cluster_reports[places[g]].members) = Range(groups[g])

\* C11 witness: process_folder finished a report of three entries over two
\* bursts, the first burst having given two groups.
C11_Witness ==
    /\ entry = "process_folder" /\ pc = "done"
    /\ Len(all_cluster_reports) = 3
    /\ all_cluster_reports[2].burst_id = 0
    /\ all_cluster_reports[3].burst_id = 1
    /\ all_cluster_reports[3].cluster_id = 2

\* Every record holds the z-score and the score score_images gives it.
AllScored ==
    \A k \in 1..Len(metrics) :
        /\ metrics[k].sharpness_z = SharpnessZ(metrics, k)
        /\ metrics[k].score = FinalScore(metrics[k], metrics[k].sharpness_z)

\* C26: the stages of a run come in order.  score_images runs once, between
\* the scan and group_into_bursts, computes every z-score from the sharpness
\* values of the whole list as they were before the call, and is the only
\* step that writes the records; group_into_bursts is the only step that
\* writes the burst list; entries are ranked and emitted only afterwards,
\* when every record is scored and the burst list is complete.
C26_StagesInOrder ==
    [][ /\ pc' = "score" => pc \in {"scan", "score"}
        /\ pc = "score" => pc' \in {"score", "bursts"}
        /\ pc' = "bursts" => pc \in {"score", "bursts"}
        /\ pc' \in {"clusters", "select"} => pc \in {"bursts", "clusters", "select"}
        /\ metrics' # metrics => pc = "score"
        /\ (pc = "score" /\ pc' = "bursts") =>
              \A k \in 1..Len(metrics) :
                  /\ metrics'[k].sharpness_z = SharpnessZ(metrics, k)
                  /\ metrics'[k].score =
                         FinalScore(metrics'[k], metrics'[k].sharpness_z)
        /\ bursts' # bursts => pc = "bursts"
        /\ (pc = "bursts" /\ pc' # "bursts") =>
              /\ pc' = "clusters"
              /\ bursts' = GroupIntoBursts(paths_ts, burst_gap_ms)
        /\ Len(all_cluster_reports') > Len(all_cluster_reports)
              => pc \in {"clusters", "select"}
      ]_vars

\* C26 witness: process_folder is about to cluster the first of two bursts;
\* the records are scored, with non-zero z-scores, and nothing is emitted yet.
C26_Witness ==
    /\ entry = "process_folder" /\ pc = "clusters" /\ run = 1
    /\ cursor = 1 /\ Len(bursts) = 2
    /\ all_cluster_reports = <<>>
    /\ AllScored
    /\ \E k \in 1..Len(metrics) : metrics[k].sharpness_z # 0

\* The places (entry, position) at which image i is listed as a member.
MemberPlaces(i) ==
    {<<n, k>> \in (1..Len(all_cluster_reports)) \X (1..Len(metrics)) :
        /\ k <= Len(all_cluster_reports[n].members)
        /\ all_cluster_reports[n].members[k] = i}

\* The clusters cluster_by_hash returned in this run: one call per burst in
\* process_folder, one call over all images in _process_with_stages.
ClustersOfRun ==
    IF entry = "process_folder"
    THEN Concat([g \in 1..Len(bursts) |->
                    ClusterByHash(HashItems(bursts[g], metrics), hash_dist)])
    ELSE global_hash_clusters

\* C30: in the finished report of either pipeline every image is a member of
\* exactly one entry, each entry's winner is its first member, its scores are
\* as many as its members, the members' own scores, and non-increasing, and
\* there is one entry (one winner, each a different image) per cluster; in
\* _process_with_stages the loop never meets a cluster whose images are all
\* processed already, and burst_id is the burst holding the winner.
C30_ReportConsistent ==
    /\ pc = "done" =>
        /\ \A i \in 0..(Len(metrics) - 1) : Cardinality(MemberPlaces(i)) = 1
        /\ \A n \in 1..Len(all_cluster_reports) :
              LET e == all_cluster_reports[n]
              IN  /\ e.members # <<>>
                  /\ e.winner = e.members[1]
                  /\ Len(e.scores) = Len(e.members)
                  /\ \A k \in 1..Len(e.members) :
                        e.scores[k] = metrics[e.members[k] + 1].score
                  /\ \A k \in 1..(Len(e.scores) - 1) : e.scores[k] >= e.scores[k + 1]
                  /\ entry = "_process_with_stages" =>
                        /\ e.burst_id + 1 \in 1..Len(bursts)
                        /\ e.winner \in Range(bursts[e.burst_id + 1])
        /\ Len(all_cluster_reports) = Len(ClustersOfRun)
        /\ Cardinality({all_cluster_reports[n].winner :
                           n \in 1..Len(all_cluster_reports)}) = Len(ClustersOfRun)
    /\ (entry = "_process_with_stages" /\ pc = "select"
          /\ cursor <= Len(global_hash_clusters)) =>
             ~(Range(global_hash_clusters[cursor]) \subseteq processed_indices)

\* C30 witness: a finished server run over three images in two bursts whose
\* report has a two-member entry with members from both bursts, tagged with
\* the second burst, and a single-member entry.
C30_Witness ==
    /\ entry = "_process_with_stages" /\ pc = "done" /\ run = 1
    /\ Len(metrics) = 3 /\ Len(bursts) = 2
    /\ Len(all_cluster_reports) = 2
    /\ \E n \in 1..2 :
          LET e == all_cluster_reports[n]
          IN  /\ Len(e.members) = 2
              /\ e.burst_id = 1
              /\ e.scores[1] > e.scores[2]
              /\ e.members[2] \in Range(bursts[1])

(***************************************************************************)
(* A call of score_images(metrics_list) on a list of records.              *)
(***************************************************************************)
MaxRecords == 3

Sharpest == [sharpness |-> 9, blur_score |-> 100, exposure_ok |-> 100, eyes_open |-> 100,
             face_count |-> 1, face_blur_scores |-> <<100>>, has_motion_blur |-> FALSE]

Worst == [sharpness |-> 0, blur_score |-> 0, exposure_ok |-> 0, eyes_open |-> 0,
          face_count |-> 6, face_blur_scores |-> <<0, 0, 0, 0, 0, 0>>,
          has_motion_blur |-> TRUE]

\* A record whose face_blur_scores has fewer elements than face_count says.
Mismatched == [sharpness |-> 3, blur_score |-> 80, exposure_ok |-> 70, eyes_open |-> 50,
               face_count |-> 2, face_blur_scores |-> <<60>>, has_motion_blur |-> FALSE]

ScoreProfiles == Profiles \cup {Sharpest, Worst, Mismatched}

\* The derived fields a record comes with: the defaults of a fresh record, or
\* what an earlier call left.
Priors == { [sharpness_z |-> 0, score |-> 0], [sharpness_z |-> 141, score |-> 9000] }

\* Sizes of the large lists: one record among n - 1 records of one profile.
CrowdSizes == {5, 44}

\* NoFaces with other values in the two fields of the portrait term.
NoFacesEyesShut == [NoFaces EXCEPT !.eyes_open = 20, !.face_blur_scores = <<10>>]

\* OneFace and Worst without motion blur.
OneFaceSteady == [OneFace EXCEPT !.has_motion_blur = FALSE]

WorstSteady == [Worst EXCEPT !.has_motion_blur = FALSE]

CallProfiles == ScoreProfiles \cup {NoFacesEyesShut, OneFaceSteady, WorstSteady}

ProfileLists ==
    SeqsUpTo(CallProfiles, MaxRecords)
    \cup { [k \in 1..n |-> IF k = p THEN o ELSE b] :
             n \in CrowdSizes, p \in {1, 2}, o \in ScoreProfiles, b \in ScoreProfiles }

ScoreLists ==
    { [k \in 1..Len(pl) |->
          [ImageMetrics(pl[k], h) EXCEPT !.sharpness_z = pr.sharpness_z, !.score = pr.score]] :
      pl \in ProfileLists, h \in PipelineHashPairs, pr \in Priors }

ScoreInit ==
    /\ records \in ScoreLists
    /\ s_before = records
    /\ s_pc = "call"
    /\ HIdle /\ CIdle /\ BIdle /\ PIdle /\ QIdle

\* clustering.py 286-350: the call annotates the records of the list in place.
ScoreCall ==
    /\ s_pc = "call"
    /\ records' = ScoreImages(records)
    /\ s_pc' = "done"
    /\ UNCHANGED <<s_before, h_vars, c_vars, b_vars, p_vars, q_vars>>

ScoreNext == ScoreCall

SpecScore == ScoreInit /\ [][ScoreNext]_vars

(***************************************************************************)
(* Properties of score_images (under SpecScore).                           *)
(***************************************************************************)
\* C15: when every record of the list has the same sharpness (a standard
\* deviation of exactly zero; a list of one record is such a list), the call
\* returns and leaves sharpness_z = 0 in every record.
C15_ZeroDeviationGivesZeroZ ==
    ( /\ s_pc = "done"
      /\ \A j, k \in 1..Len(s_before) : s_before[j].sharpness = s_before[k].sharpness )
    => \A k \in 1..Len(records) : records[k].sharpness_z = 0

\* C15 witness: five records of one sharpness, each carrying a non-zero
\* sharpness_z from an earlier call, were scored.
C15_Witness ==
    /\ s_pc = "done"
    /\ Len(s_before) = 5
    /\ \A k \in 1..5 : s_before[k].sharpness = s_before[1].sharpness
    /\ \A k \in 1..5 : s_before[k].sharpness_z # 0
    /\ \A k \in 1..5 : records[k].sharpness_z = 0

\* C16: after the call every record's score is within [-2.0, 2.0]; a record
\* whose composite value is above 2.0 holds 2.0 and one whose composite value
\* is below -2.0 holds -2.0.
C16_ScoreClampedToRange ==
    s_pc = "done" =>
        \A k \in 1..Len(records) :
            LET composite == Composite(s_before[k], records[k].sharpness_z)
            IN  /\ 0 - 20000 <= records[k].score /\ records[k].score <= 20000
                /\ composite > 20000 => records[k].score = 20000
                /\ composite < 0 - 20000 => records[k].score = 0 - 20000

\* C16 witness: the one sharp record among 43 others came out with a
\* composite value above 2.0 and holds 2.0.
C16_Witness ==
    /\ s_pc = "done"
    /\ \E k \in 1..Len(records) :
          /\ Composite(s_before[k], records[k].sharpness_z) > 20000
          /\ records[k].score = 20000

\* The fields of a record other than the two derived ones.
InputFields(m) == [m EXCEPT !.sharpness_z = 0, !.score = 0]

\* C17: the call leaves the list with the same records in the same order and
\* changes no field of a record other than sharpness_z and score; on the empty
\* list it does nothing.
C17_OnlyDerivedFieldsChange ==
    s_pc = "done" =>
        /\ Len(records) = Len(s_before)
        /\ \A k \in 1..Len(records) :
              /\ DOMAIN records[k] = DOMAIN s_before[k]
              /\ InputFields(records[k]) = InputFields(s_before[k])
        /\ s_before = <<>> => records = <<>>

\* C17 witness: three records of three profiles were scored, each got a new
\* sharpness_z and a new score, and the scores ascend along the list.
C17_Witness ==
    /\ s_pc = "done"
    /\ Len(records) = 3
    /\ \A k \in 1..3 : /\ records[k].sharpness_z # s_before[k].sharpness_z
                       /\ records[k].score # s_before[k].score
    /\ records[1].score < records[2].score
    /\ records[2].score < records[3].score

\* a and b are the same but for the fields named in the set fields.
SameBut(a, b, fields) == \A f \in (DOMAIN a) \ fields : a[f] = b[f]

Derived == {"sharpness_z", "score"}

\* C24: for a record with face_count = 0 the portrait term is left out: two
\* such records of one call that differ only in eyes_open and
\* face_blur_scores get the same score, and the score is the technical term
\* (0.3 z + 0.2 blur_score + 0.15 exposure_ok) plus 0.35 plus the aesthetic
\* term, clamped.
C24_NoFacesPortraitWeightToTechnical ==
    s_pc = "done" =>
        \A k \in 1..Len(records) :
            s_before[k].face_count = 0 =>
                LET m == records[k]
                    technical == 30 * m.sharpness_z + 20 * m.blur_score + 15 * m.exposure_ok
                    aesthetic == (IF m.exposure_ok > 80 THEN 500 ELSE 0)
                                 + (IF m.has_motion_blur THEN 0 ELSE 500)
                IN  /\ m.score = Max(0 - 20000, Min(20000, technical + 3500 + aesthetic))
                    /\ \A j \in 1..Len(records) :
                          SameBut(s_before[j], s_before[k],
                                  Derived \cup {"eyes_open", "face_blur_scores"})
                            => records[j].score = m.score

\* C24 witness: two records without faces that differ in eyes_open and in
\* face_blur_scores, and in nothing else, were scored in one call and hold the
\* same non-zero score.
C24_Witness ==
    /\ s_pc = "done"
    /\ \E j, k \in 1..Len(records) :
          /\ s_before[k].face_count = 0
          /\ s_before[j].eyes_open # s_before[k].eyes_open
          /\ s_before[j].face_blur_scores # s_before[k].face_blur_scores
          /\ SameBut(s_before[j], s_before[k], Derived \cup {"eyes_open", "face_blur_scores"})
          /\ records[j].score = records[k].score
          /\ records[k].score > 0

\* Records j and k of the call are the same but for has_motion_blur, which j
\* has and k has not, and neither score was clamped.
MotionBlurPair(j, k) ==
    /\ s_before[j].has_motion_blur /\ ~s_before[k].has_motion_blur
    /\ SameBut(s_before[j], s_before[k], Derived \cup {"has_motion_blur"})
    /\ records[j].score > 0 - 20000 /\ records[j].score < 20000
    /\ records[k].score > 0 - 20000 /\ records[k].score < 20000

\* The mean of the face blur scores of m is below 0.5.
LowFaceBlur(m) ==
    /\ m.face_count > 0
    /\ m.face_blur_scores # <<>>
    /\ SumSeq(m.face_blur_scores) < 50 * Len(m.face_blur_scores)

\* The claim as first stated, C25: of two records of one call that differ only
\* in has_motion_blur, the one with motion blur scores lower by the fixed
\* amount 0.05, and by more than that when it has faces whose mean blur score
\* is low.
C25_Original_ExtraDeductionForLowFaceBlur ==
    s_pc = "done" =>
        \A j, k \in 1..Len(records) :
            MotionBlurPair(j, k) =>
                IF LowFaceBlur(s_before[j])
                THEN records[k].score - records[j].score > 500
                ELSE records[k].score - records[j].score = 500

\* C25, amended: of two records of one call that differ only in
\* has_motion_blur, the one with motion blur gets a score, before clamping,
\* lower by the fixed amount 0.05, whatever its face count and face blur
\* scores are.
C25_MotionBlurCostsFixedAmount ==
    s_pc = "done" =>
        \A j, k \in 1..Len(records) :
            MotionBlurPair(j, k) => records[k].score - records[j].score = 500

\* C25 witness: a record with motion blur, six faces and a mean face blur
\* score of 0 was scored beside its copy without motion blur, and scores
\* lower by 0.05.
C25_Witness ==
    /\ s_pc = "done"
    /\ \E j, k \in 1..Len(records) :
          /\ MotionBlurPair(j, k)
          /\ LowFaceBlur(s_before[j])
          /\ records[k].score - records[j].score = 500

(***************************************************************************)
(* A run of process_folder on three images taken at 0 s, 0.2 s and 5 s     *)
(* with a burst gap of 700 ms, the first two with the same fingerprints.   *)
(***************************************************************************)
ScenarioTimestamps == <<0, 2, 50>>

ScenarioMetrics ==
    { [k \in 1..3 |-> ImageMetrics(pr[k], IF k = 3 THEN h3 ELSE h12)] :
        pr \in [1..3 -> ScoreProfiles],
        h12 \in {h \in HashPairs : ~HasEmptyHash(h)},
        h3 \in HashPairs }

ScenarioInit ==
    /\ entry = "process_folder"
    /\ metrics \in ScenarioMetrics
    /\ paths_ts = ScenarioTimestamps
    /\ hash_dist \in PipelineHashDists
    /\ burst_gap_ms = 700
    /\ pc = "scan"
    /\ bursts = <<>> /\ cursor = 0
    /\ global_hash_clusters = <<>> /\ processed_indices = {}
    /\ all_cluster_reports = <<>> /\ cluster_id_counter = 0
    /\ run = 1 /\ first_run = <<>>
    /\ HIdle /\ CIdle /\ BIdle /\ SIdle /\ QIdle

ScenarioNext == PfScan \/ PfScore \/ PfBursts \/ PfBurst \/ PfReport

SpecScenario == ScenarioInit /\ [][ScenarioNext]_vars

\* C20: three images at 0 ms, 200 ms and 5000 ms, gap threshold 700 ms, images
\* 0 and 1 with identical fingerprints and image 0 scoring higher than image
\* 1: process_folder yields the bursts [0, 1] and [2]; burst 0 gives one entry
\* with members [0, 1] and winner 0; image 2 is the one member and the winner
\* of one entry of burst 1; there is no other entry.
C20_TwoBurstsWinnerImage0 ==
    ( /\ entry = "process_folder" /\ pc = "done"
      /\ paths_ts = <<0, 2, 50>> /\ burst_gap_ms = 700
      /\ metrics[1].phash = metrics[2].phash /\ metrics[1].dhash = metrics[2].dhash
      /\ metrics[1].phash # <<>> /\ metrics[1].dhash # <<>>
      /\ metrics[1].score > metrics[2].score )
    => /\ bursts = << <<0, 1>>, <<2>> >>
       /\ Len(all_cluster_reports) = 2
       /\ all_cluster_reports[1].burst_id = 0
       /\ all_cluster_reports[1].members = <<0, 1>>
       /\ all_cluster_reports[1].winner = 0
       /\ all_cluster_reports[2].burst_id = 1
       /\ all_cluster_reports[2].members = <<2>>
       /\ all_cluster_reports[2].winner = 2

\* C20 witness: the run finished with image 0 scoring higher than image 1 and
\* image 2 carrying the very fingerprints of images 0 and 1.
C20_Witness ==
    /\ entry = "process_folder" /\ pc = "done"
    /\ paths_ts = <<0, 2, 50>> /\ burst_gap_ms = 700
    /\ metrics[1].phash = metrics[2].phash /\ metrics[1].dhash = metrics[2].dhash
    /\ metrics[3].phash = metrics[1].phash /\ metrics[3].dhash = metrics[1].dhash
    /\ metrics[1].phash # <<>>
    /\ metrics[1].score > metrics[2].score
    /\ Len(all_cluster_reports) = 2
    /\ all_cluster_reports[1].winner = 0


(***************************************************************************)
(* ProcessingQueue: the request thread calling add_job and the worker      *)
(* thread, one statement a step.                                           *)
(***************************************************************************)
MaxJobs == 3

\* server.py 75: what _process_with_stages raises, as str(e).
Errors == {"No images found in upload directory"}

\* server.py 387-395: the dict the request handler makes; it has neither an
\* id nor a status yet (0 and "none"), and no error.
NewJob == [id |-> 0, status |-> "none", error |-> ""]

\* server.py 20-27: __init__ has started the worker.
QueueInit ==
    /\ jobs = <<>> /\ queue = <<>> /\ current_job = 0 /\ job_history = <<>>
    /\ w_pc = "get" /\ job = 0 /\ a_pc = "idle" /\ a_len = 0
    /\ HIdle /\ CIdle /\ BIdle /\ SIdle /\ PIdle

\* server.py 387-397, 216: the handler makes a job and calls add_job, which
\* evaluates len(self.job_history) first.
AddJobLen ==
    /\ a_pc = "idle" /\ Len(jobs) < MaxJobs
    /\ jobs' = Append(jobs, NewJob)
    /\ a_len' = Len(job_history)
    /\ a_pc' = "id"
    /\ UNCHANGED <<queue, current_job, job_history, w_pc, job,
                   h_vars, c_vars, b_vars, s_vars, p_vars>>

\* server.py 216: job['id'] = (the length read) + self.queue.qsize() + 1.
AddJobId ==
    /\ a_pc = "id"
    /\ jobs' = [jobs EXCEPT ![Len(jobs)].id = a_len + Len(queue) + 1]
    /\ a_pc' = "status"
    /\ UNCHANGED <<queue, current_job, job_history, w_pc, job, a_len,
                   h_vars, c_vars, b_vars, s_vars, p_vars>>

\* server.py 217.
AddJobStatus ==
    /\ a_pc = "status"
    /\ jobs' = [jobs EXCEPT ![Len(jobs)].status = "queued"]
    /\ a_pc' = "put"
    /\ UNCHANGED <<queue, current_job, job_history, w_pc, job, a_len,
                   h_vars, c_vars, b_vars, s_vars, p_vars>>

\* server.py 218-219.
AddJobPut ==
    /\ a_pc = "put"
    /\ queue' = Append(queue, Len(jobs))
    /\ a_pc' = "idle"
    /\ UNCHANGED <<jobs, current_job, job_history, w_pc, job, a_len,
                   h_vars, c_vars, b_vars, s_vars, p_vars>>

\* WorkerGet taking the job put last (a stack instead of a queue).
WorkerGetNewest ==
    /\ w_pc = "get" /\ queue # <<>>
    /\ job' = queue[Len(queue)]
    /\ queue' = SubSeq(queue, 1, Len(queue) - 1)
    /\ w_pc' = "current"
    /\ UNCHANGED <<jobs, current_job, job_history, a_pc, a_len,
                   h_vars, c_vars, b_vars, s_vars, p_vars>>

\* server.py 32: job = self.queue.get(), which blocks while the queue is
\* empty.
WorkerGet ==
    /\ w_pc = "get" /\ queue # <<>>
    /\ job' = Head(queue)
    /\ queue' = Tail(queue)
    /\ w_pc' = "current"
    /\ UNCHANGED <<jobs, current_job, job_history, a_pc, a_len,
                   h_vars, c_vars, b_vars, s_vars, p_vars>>

\* server.py 33-35.
WorkerCurrent ==
    /\ w_pc = "current"
    /\ current_job' = job
    /\ w_pc' = "try"
    /\ UNCHANGED <<jobs, queue, job_history, job, a_pc, a_len,
                   h_vars, c_vars, b_vars, s_vars, p_vars>>

\* server.py 38-39.
WorkerStart ==
    /\ w_pc = "try"
    /\ jobs' = [jobs EXCEPT ![job].status = "processing"]
    /\ w_pc' = "process"
    /\ UNCHANGED <<queue, current_job, job_history, job, a_pc, a_len,
                   h_vars, c_vars, b_vars, s_vars, p_vars>>

\* server.py 42: self._process_with_stages(job) returns.
WorkerProcessReturns ==
    /\ w_pc = "process"
    /\ w_pc' = "completed"
    /\ UNCHANGED <<jobs, queue, current_job, job_history, job, a_pc, a_len,
                   h_vars, c_vars, b_vars, s_vars, p_vars>>

\* WorkerProcessRaises without the except clause: the exception ends the
\* worker thread.
WorkerProcessRaisesUncaught ==
    /\ w_pc = "process"
    /\ w_pc' = "stopped"
    /\ UNCHANGED <<jobs, queue, current_job, job_history, job, a_pc, a_len,
                   h_vars, c_vars, b_vars, s_vars, p_vars>>

\* server.py 42, 49-54: self._process_with_stages(job) raises an Exception,
\* which the handler records.
WorkerProcessRaises ==
    /\ w_pc = "process"
    /\ \E e \in Errors :
           jobs' = [jobs EXCEPT ![job].status = "failed", ![job].error = e]
    /\ w_pc' = "append"
    /\ UNCHANGED <<queue, current_job, job_history, job, a_pc, a_len,
                   h_vars, c_vars, b_vars, s_vars, p_vars>>

\* server.py 44-47.
WorkerCompleted ==
    /\ w_pc = "completed"
    /\ jobs' = [jobs EXCEPT ![job].status = "completed"]
    /\ w_pc' = "append"
    /\ UNCHANGED <<queue, current_job, job_history, job, a_pc, a_len,
                   h_vars, c_vars, b_vars, s_vars, p_vars>>

\* server.py 56.
WorkerAppend ==
    /\ w_pc = "append"
    /\ job_history' = Append(job_history, job)
    /\ w_pc' = "clear"
    /\ UNCHANGED <<jobs, queue, current_job, job, a_pc, a_len,
                   h_vars, c_vars, b_vars, s_vars, p_vars>>

\* server.py 57-58, and back to the head of the loop.
WorkerClear ==
    /\ w_pc = "clear"
    /\ current_job' = 0
    /\ w_pc' = "get"
    /\ UNCHANGED <<jobs, queue, job_history, job, a_pc, a_len,
                   h_vars, c_vars, b_vars, s_vars, p_vars>>

AddJob == AddJobLen \/ AddJobId \/ AddJobStatus \/ AddJobPut

Worker ==
    \/ WorkerGet \/ WorkerCurrent \/ WorkerStart
    \/ WorkerProcessReturns \/ WorkerProcessRaises \/ WorkerCompleted
    \/ WorkerAppend \/ WorkerClear

QueueNext == AddJob \/ Worker

SpecQueue == QueueInit /\ [][QueueNext]_vars

\* The worker thread is scheduled again and again, and a call of
\* _process_with_stages ends.
FairSpecQueue == SpecQueue /\ WF_vars(Worker)


(***************************************************************************)
(* Properties of the ProcessingQueue.  Jobs are named in the order the     *)
(* request thread called add_job for them, which is the order it put them. *)
(***************************************************************************)
\* The jobs add_job has given an id.
WithId == {t \in 1..Len(jobs) : jobs[t].id # 0}

\* C27: no two jobs that add_job has given an id hold the same id.
C27_JobIdsUnique ==
    \A t, u \in WithId : t # u => jobs[t].id # jobs[u].id

Processing == {t \in 1..Len(jobs) : jobs[t].status = "processing"}

Started == {t \in 1..Len(jobs) : jobs[t].status \in {"processing", "completed", "failed"}}

\* Jobs are started in the order they were enqueued, and job_history lists
\* the finished jobs in that order, each once.
FifoOrder ==
    /\ \A t \in Started : \A u \in (1..Len(jobs)) \ Started : t < u
    /\ job_history = [k \in 1..Len(job_history) |-> k]
    /\ \A k \in 1..Len(job_history) : jobs[k].status \in {"completed", "failed"}

\* C28 as stated: at most one job is processing, current_job is None or the
\* processing job, and the order is first in, first out.
C28_Original_CurrentJobNoneOrProcessing ==
    /\ Cardinality(Processing) <= 1
    /\ current_job # 0 => current_job \in Processing
    /\ FifoOrder

\* C28: at most one job is processing and it is current_job; current_job is
\* None or the job the worker has taken from the queue and not yet cleared,
\* whose status is queued just after it is taken, then processing, then
\* completed or failed; the order is first in, first out.
C28_OneJobAtATimeFifo ==
    /\ Cardinality(Processing) <= 1
    /\ \A t \in Processing : current_job = t
    /\ current_job # 0 =>
          /\ current_job = job
          /\ \A k \in 1..Len(queue) : queue[k] # job
          /\ jobs[job].status \in {"queued", "processing", "completed", "failed"}
    /\ FifoOrder

\* C28 witness: the first job is being processed while two more wait.
C28_Witness ==
    /\ current_job = 1 /\ jobs[1].status = "processing"
    /\ queue = <<2, 3>>

\* One step of a job's status.
StatusStep(old, new) ==
    \/ old = new
    \/ old = "none" /\ new = "queued"
    \/ old = "queued" /\ new = "processing"
    \/ old = "processing" /\ new \in {"completed", "failed"}

Finished(t) ==
    /\ t \in Range(job_history)
    /\ jobs[t].status \in {"completed", "failed"}

\* C29: the status of a job goes queued, processing, then completed or
\* failed, and stays; a call of _process_with_stages that raises leaves the
\* job failed with the error recorded and the worker going on to append it;
\* and with the worker scheduled fairly, every job put in the queue is
\* eventually in job_history as completed or failed.
C29_LifecycleAndCompletion ==
    /\ [][ /\ \A t \in 1..Len(jobs) : StatusStep(jobs[t].status, jobs'[t].status)
           /\ \A t \in 1..Len(jobs) :
                 jobs'[t].status = "failed" => jobs'[t].error \in Errors
           /\ (w_pc = "process" /\ w_pc' \notin {"process", "completed"}) =>
                 /\ jobs'[job].status = "failed"
                 /\ w_pc' = "append"
         ]_vars
    /\ \A t \in 1..MaxJobs : (t \in Range(queue)) ~> Finished(t)

\* C29 witness: the first job failed, and the two behind it were processed,
\* one completing and one failing.
C29_Witness ==
    /\ job_history = <<1, 2, 3>>
    /\ jobs[1].status = "failed" /\ jobs[1].error \in Errors
    /\ jobs[2].status = "completed"
    /\ jobs[3].status = "failed"
    /\ w_pc = "get"

=============================================================================
